---- MODULE Spec2Model ----
(***************************************************************************)
(* A model of hpc_interact.Scripter: the builder of `expect` scripts that  *)
(* drive sftp/ssh sessions, and the resolution of its credentials.         *)
(*                                                                         *)
(* Strings are sequences of tokens.  A token is a run of characters that   *)
(* no string operation of the program looks inside for the inputs used     *)
(* here: the keywords username/password/group/site, the markup pieces      *)
(* send, expect and the double quote, the separators " ", "=", "/", "\n",  *)
(* single digits, and names whose letters form none of the above.          *)
(* Concatenation is \o; substring search, split, strip and replace work on *)
(* tokens exactly as the Python operations work on the characters.         *)
(*                                                                         *)
(* Two specifications share the variables:                                 *)
(*   Spec      a constructed session and its builder calls                 *)
(*   SpecCred  construction (credential resolution), the credential resets *)
(*             and run                                                     *)
(***************************************************************************)
EXTENDS Integers, Sequences, FiniteSets, TLC

\* ------------------------------------------------------------------ bounds

\* A builder call is taken only while fewer than MaxSteps steps are planned.
MaxSteps == 2
\* Stand-in for the interpreter's recursion limit (1000 frames by default).
RecursionLimit == 3
\* run() is called at most MaxRuns times between two clear() calls.
MaxRuns == 2

\* ------------------------------------------------------------ Python values

\* A Python value: None, a str (token sequence s) or an int (n).
None == [t |-> "none", s |-> <<>>, n |-> 0]
S(seq) == [t |-> "str", s |-> seq, n |-> 0]
I(k) == [t |-> "int", s |-> <<>>, n |-> k]

\* bool(v): None, "" and 0 are falsy.
Truthy(v) ==
  CASE v.t = "none" -> FALSE
    [] v.t = "str" -> v.s # <<>>
    [] OTHER -> v.n # 0

DigitTok(d) ==
  CASE d = 0 -> "0" [] d = 1 -> "1" [] d = 2 -> "2" [] d = 3 -> "3"
    [] d = 4 -> "4" [] d = 5 -> "5" [] d = 6 -> "6" [] d = 7 -> "7"
    [] d = 8 -> "8" [] OTHER -> "9"

RECURSIVE NatToStr(_)
NatToStr(k) ==
  IF k < 10 THEN <<DigitTok(k)>> ELSE NatToStr(k \div 10) \o <<DigitTok(k % 10)>>

\* str(v)
Str(v) ==
  CASE v.t = "none" -> <<"None">>
    [] v.t = "str" -> v.s
    [] OTHER -> IF v.n < 0 THEN <<"-">> \o NatToStr(-v.n) ELSE NatToStr(v.n)

Digits == {"0", "1", "2", "3", "4", "5", "6", "7", "8", "9"}

\* str.isnumeric(): non-empty and every character numeric.
IsNumeric(seq) == seq # <<>> /\ \A i \in 1..Len(seq) : seq[i] \in Digits

\* str.lower() on one token
LowerTok(tok) ==
  CASE tok = "USERNAME" -> "username"
    [] tok = "PASSWORD" -> "password"
    [] tok = "GROUP" -> "group"
    [] tok = "SITE" -> "site"
    [] OTHER -> tok

Lower(seq) == [i \in 1..Len(seq) |-> LowerTok(seq[i])]

\* `tok in seq`
Contains(seq, tok) == \E i \in 1..Len(seq) : seq[i] = tok

\* str.strip(): leading and trailing whitespace removed.
RECURSIVE LStrip(_)
LStrip(seq) ==
  IF seq # <<>> /\ Head(seq) \in {" ", "\n"} THEN LStrip(Tail(seq)) ELSE seq

RECURSIVE RStrip(_)
RStrip(seq) ==
  IF seq # <<>> /\ seq[Len(seq)] \in {" ", "\n"}
  THEN RStrip(SubSeq(seq, 1, Len(seq) - 1)) ELSE seq

Strip(seq) == RStrip(LStrip(seq))

\* seq.split(sep)[-1]: what follows the last sep (all of seq when there is none).
RECURSIVE AfterLast(_, _)
AfterLast(seq, sep) ==
  IF Contains(seq, sep) THEN AfterLast(Tail(seq), sep) ELSE seq

\* True when pat occurs in seq at position i.
MatchAt(seq, pat, i) ==
  /\ i + Len(pat) - 1 <= Len(seq)
  /\ \A j \in 1..Len(pat) : seq[i + j - 1] = pat[j]

\* seq.replace(pat, ""): every non-overlapping occurrence, left to right.
RECURSIVE RemoveAll(_, _)
RemoveAll(seq, pat) ==
  IF seq = <<>> THEN <<>>
  ELSE IF MatchAt(seq, pat, 1)
       THEN RemoveAll(SubSeq(seq, Len(pat) + 1, Len(seq)), pat)
       ELSE <<Head(seq)>> \o RemoveAll(Tail(seq), pat)

\* sep.join(items), items a sequence of token sequences.
RECURSIVE Join(_, _)
Join(sep, items) ==
  IF items = <<>> THEN <<>>
  ELSE IF Len(items) = 1 THEN items[1]
       ELSE items[1] \o sep \o Join(sep, Tail(items))

\* [str(c) for c in commands if c]
RECURSIVE TruthyStrs(_)
TruthyStrs(vals) ==
  IF vals = <<>> THEN <<>>
  ELSE (IF Truthy(Head(vals)) THEN <<Str(Head(vals))>> ELSE <<>>)
       \o TruthyStrs(Tail(vals))

\* ---------------------------------------------------------------------- Step

\* Step.__init__: the expect line and the send line of one step.
Step(exp, input) ==
  [expectation |-> <<"expect", " ", "\"">> \o Str(exp) \o <<"\"">>,
   action |-> <<"send", " ", "\"">> \o Str(input) \o <<"\n", "\"">>,
   mode |-> "sftp",
   quote |-> "\""]

\* Step.__repr__(sep)
Repr(step, sep) == step.expectation \o sep \o step.action \o sep

\* ------------------------------------------------------------------- state

VARIABLES
  phase,      \* "new" before __init__ has run, "ready" after, "failed" if it raised
  mode,       \* self.mode
  username,   \* self.username
  password,   \* self.__password
  group,      \* self.group
  site,       \* self.site
  expect,     \* self.expect
  entry,      \* self.entry
  pw_steps,   \* self.__pw_steps
  actions,    \* self.actions
  file,       \* the config file: NoFile, or its lines
  call,       \* the last call: its name, arguments and the exception it raised
  output,     \* what the last call printed or handed to os.system
  runs        \* run() calls since construction or the last clear()

vars == <<phase, mode, username, password, group, site, expect, entry,
          pw_steps, actions, file, call, output, runs>>

Modes == {"sftp", "ssh"}

\* The config path names no existing file.
NoFile == << <<"<absent>">> >>

\* self.open and self.close
Open == <<"expect << !", "\n", "set timeout -1", "\n", "spawn", " ">>
Close == <<"expect eof", "\n", "!", "\n">>

\* self.entry
Entry(m, user, host) == <<m, " ">> \o Str(user) \o <<"@">> \o Str(host) \o <<"\n">>

\* self.__pw_steps
PwSteps(pw) == <<Step(S(<<"Password:">>), pw),
                 Step(S(<<"Passcode or option (1-3):">>), I(1))>>

\* self.expect
DefaultExpect(m, user) == IF m = "sftp" THEN S(<<"sftp>">>) ELSE user

\* The record of a call that has not named its arguments yet.
NoCall ==
  [op |-> "", raised |-> "none",
   input |-> None, exp |-> None, dir |-> None, local |-> FALSE,
   files |-> <<>>, grp |-> None, octal |-> None,
   kind |-> None, file |-> None, outdir |-> None, new_name |-> None,
   options |-> <<>>, setperm |-> FALSE, commands |-> <<>>,
   save |-> FALSE, overwrite |-> FALSE, headless |-> FALSE,
   reset_user |-> FALSE, reset_pass |-> FALSE,
   a_username |-> None, a_password |-> None, a_group |-> None, a_site |-> None,
   prompted |-> FALSE, wrote |-> FALSE]

\* ---------------------------------------------------------- builder methods
\* Each method is a function of the part of the session it can change,
\* s = [actions, group, raised]; raised names the exception that ended it.

Sess == [actions |-> actions, group |-> group, raised |-> "none"]

Raise(s, exc) == [s EXCEPT !.raised = exc]

\* add_step(input, expect)
AddStepS(s, input, exp) ==
  [s EXCEPT !.actions = Append(@, Step(IF ~Truthy(exp) THEN expect ELSE exp, input))]

\* basic_step(*commands, expect)
BasicStepS(s, commands, exp) ==
  IF commands # <<>>
  THEN AddStepS(s, S(Join(<<" ">>, TruthyStrs(commands))), exp)
  ELSE s

\* pwd()
PwdS(s) == AddStepS(s, S(<<"pwd">>), None)

\* ls(dir)
LsS(s, dir) ==
  BasicStepS(s, <<S(<<"ls -la">>), IF ~Truthy(dir) THEN S(<<".">>) ELSE dir>>, None)

\* cwd with the sftp check on lcd left out.
CwdS_AnyMode(s, dir, local) ==
  BasicStepS(s, <<S(<<IF local THEN "lcd" ELSE "cd">>), dir>>, None)

\* cwd(dir, local)
CwdS(s, dir, local) ==
  IF local
  THEN IF mode = "sftp"
       THEN BasicStepS(s, <<S(<<"lcd">>), dir>>, None)
       ELSE Raise(s, "Exception")
  ELSE BasicStepS(s, <<S(<<"cd">>), dir>>, None)

\* The sftp check of set_permissions on one value: a non-empty str (an int
\* is converted first) that is not numeric.
Invalid(x) ==
  LET xs == IF x.t = "int" THEN S(Str(x)) ELSE x
  IN xs.t = "str" /\ ~IsNumeric(xs.s) /\ Truthy(xs)

\* The loop of set_permissions over files.
RECURSIVE PermSteps(_, _, _)
PermSteps(s, files, octal) ==
  IF files = <<>> THEN s
  ELSE LET s1 == BasicStepS(s, <<S(<<"chmod">>), octal, Head(files)>>, None)
           s2 == IF Truthy(s1.group)
                 THEN BasicStepS(s1, <<S(<<"chgrp">>), s1.group, Head(files)>>, None)
                 ELSE s1
       IN PermSteps(s2, Tail(files), octal)

\* set_permissions(files, group, octal); files is the list (a str argument is
\* wrapped into a one-element list first).
SetPermissionsS(s, files, grp, octal) ==
  LET s1 == IF ~Truthy(s.group) /\ grp # S(<<>>) THEN [s EXCEPT !.group = grp] ELSE s
  IN IF mode = "sftp" /\ (Invalid(s1.group) \/ Invalid(octal))
     THEN Raise(s1, "TypeError")
     ELSE PermSteps(s1, files, octal)

\* transfer with the directory change emitted after the transfer step.
TransferS_CwdAfter(s, kind, f, outdir, local, new_name, options) ==
  IF mode # "sftp"
  THEN Raise(s, "Exception")
  ELSE LET s1 == IF options # <<>>
                 THEN BasicStepS(s, <<kind, S(<<"-">> \o Join(<<>>, options)), f,
                                      new_name, S(<<"\n">>)>>, None)
                 ELSE BasicStepS(s, <<kind, f, new_name, S(<<"\n">>)>>, None)
       IN IF Truthy(outdir) THEN BasicStepS(s1, <<S(<<IF local THEN "lcd" ELSE "cd">>), outdir>>, None)
          ELSE s1

\* transfer(trans_type, file, outdir, local, new_name, options)
TransferS(s, kind, f, outdir, local, new_name, options) ==
  IF mode # "sftp"
  THEN Raise(s, "Exception")
  ELSE LET s1 == IF Truthy(outdir) THEN CwdS(s, outdir, local) ELSE s
       IN IF s1.raised # "none" THEN s1
          ELSE IF options # <<>>
               THEN BasicStepS(s1, <<kind, S(<<"-">> \o Join(<<>>, options)), f,
                                     new_name, S(<<"\n">>)>>, None)
               ELSE BasicStepS(s1, <<kind, f, new_name, S(<<"\n">>)>>, None)

\* get(file, outdir, new_name, options)
GetS(s, f, outdir, new_name, options) ==
  TransferS(s, S(<<"get">>), f, outdir, TRUE, new_name, options)

\* str(Path(outdir)/Path(file).name), for relative paths already in normal form
PathJoinName(outdir, f) ==
  IF Str(outdir) = <<>> THEN AfterLast(Str(f), "/")
  ELSE Str(outdir) \o <<"/">> \o AfterLast(Str(f), "/")

\* put(file, outdir, new_name, options, set_permissions)
PutS(s, f, outdir, new_name, options, setperm) ==
  LET s1 == IF Truthy(outdir)
            THEN AddStepS(s, S(<<"mkdir", " ">> \o Str(outdir)), None)
            ELSE s
      s2 == TransferS(s1, S(<<"put">>), f, outdir, FALSE, new_name, options)
  IN IF s2.raised # "none" \/ ~setperm THEN s2
     ELSE IF outdir.t = "none" THEN Raise(s2, "TypeError")
          ELSE SetPermissionsS(s2, <<S(PathJoinName(outdir, f))>>, None,
                               S(<<"0", "6", "6", "4">>))

\* The exit command chosen without looking at the mode.
ExitCommand_AlwaysQuit(m) == "quit"

\* The exit command of run().
ExitCommand(m) == IF m = "sftp" THEN "quit" ELSE "exit"

\* get_steps(step_list, sep)
GetSteps(acts, step_list, sep) ==
  LET l == IF step_list = <<>> THEN acts ELSE step_list
  IN Join(<<>>, [i \in 1..Len(l) |-> Repr(l[i], sep)])

\* __full_command()
FullCommand(acts) ==
  Open \o entry \o GetSteps(acts, pw_steps, <<"\n">>) \o GetSteps(acts, <<>>, <<"\n">>)
       \o Close

\* One item of get_actions().
ActionText(step) == RemoveAll(RemoveAll(step.action, <<"send", " ", "\"">>), <<"\"">>)

\* get_actions()
GetActions(acts) == [i \in 1..Len(acts) |-> ActionText(acts[i])]

\* What preview_steps() prints after its heading: enumerate(get_actions()).
PreviewLines(acts) == [i \in 1..Len(acts) |-> <<i - 1, GetActions(acts)[i]>>]

\* --------------------------------------------------------------- call inputs

CmdInputs == {S(<<"echo", " ", "\"", "hi", "\"">>)}
ExpInputs == {None, S(<<"$">>)}
DirInputs == {None, S(<<"remote", "/", "dir">>)}
FileInputs == {S(<<"data.csv">>)}
FileLists == {<<S(<<"data.csv">>)>>, <<S(<<"data.csv">>), S(<<"b.txt">>)>>}
NameInputs == {None, S(<<"new.csv">>)}
OptionInputs == {<<>>, << <<"r">>, <<"p">> >>}
GroupArgs == {None, S(<<>>), S(<<"1", "0", "0">>), S(<<"staff">>), I(7)}
OctalArgs == {S(<<"0", "6", "6", "4">>), S(<<"u+rw">>), I(664)}
SessionGroups == {None, S(<<"1", "0", "0">>), S(<<"staff">>)}
KindInputs == {S(<<"get">>), S(<<"put">>)}
CommandInputs ==
  {<<>>, <<S(<<"chmod">>), None, I(664), S(<<>>), S(<<"data.csv">>)>>}

\* -------------------------------------------------------------- builder calls

\* The attributes left by a call that ended in session part r.
Effect(r, c, out) ==
  /\ actions' = r.actions
  /\ group' = r.group
  /\ call' = [c EXCEPT !.raised = r.raised]
  /\ output' = out
  /\ UNCHANGED <<phase, mode, username, password, site, expect, entry, pw_steps, file>>

\* The state left by a builder call that ended in session part r.
Finish(r, c, out) == Effect(r, c, out) /\ UNCHANGED runs

\* A builder call is taken while fewer than MaxSteps steps are planned.
CanCall == phase = "ready" /\ Len(actions) < MaxSteps

AddStep ==
  /\ CanCall
  /\ \E input \in CmdInputs, exp \in ExpInputs :
       Finish(AddStepS(Sess, input, exp),
              [NoCall EXCEPT !.op = "add_step", !.input = input, !.exp = exp], <<>>)

BasicStep ==
  /\ CanCall
  /\ \E commands \in CommandInputs, exp \in ExpInputs :
       Finish(BasicStepS(Sess, commands, exp),
              [NoCall EXCEPT !.op = "basic_step", !.commands = commands,
                             !.exp = exp], <<>>)

Pwd ==
  /\ CanCall
  /\ Finish(PwdS(Sess), [NoCall EXCEPT !.op = "pwd"], <<>>)

Ls ==
  /\ CanCall
  /\ \E dir \in DirInputs :
       Finish(LsS(Sess, dir), [NoCall EXCEPT !.op = "ls", !.dir = dir], <<>>)

Cwd ==
  /\ CanCall
  /\ \E dir \in DirInputs \ {None}, local \in BOOLEAN :
       Finish(CwdS(Sess, dir, local),
              [NoCall EXCEPT !.op = "cwd", !.dir = dir, !.local = local], <<>>)

SetPermissions ==
  /\ CanCall
  /\ \E files \in FileLists, grp \in GroupArgs, octal \in OctalArgs :
       Finish(SetPermissionsS(Sess, files, grp, octal),
              [NoCall EXCEPT !.op = "set_permissions", !.files = files,
                             !.grp = grp, !.octal = octal], <<>>)

Transfer ==
  /\ CanCall
  /\ \E kind \in KindInputs, f \in FileInputs, outdir \in DirInputs,
        local \in BOOLEAN, new_name \in NameInputs, options \in OptionInputs :
       Finish(TransferS(Sess, kind, f, outdir, local, new_name, options),
              [NoCall EXCEPT !.op = "transfer", !.kind = kind, !.file = f,
                             !.outdir = outdir, !.local = local,
                             !.new_name = new_name, !.options = options], <<>>)

Get ==
  /\ CanCall
  /\ \E f \in FileInputs, outdir \in DirInputs, new_name \in NameInputs,
        options \in OptionInputs :
       Finish(GetS(Sess, f, outdir, new_name, options),
              [NoCall EXCEPT !.op = "get", !.file = f, !.outdir = outdir,
                             !.new_name = new_name, !.options = options], <<>>)

Put ==
  /\ CanCall
  /\ \E f \in FileInputs, outdir \in DirInputs, new_name \in NameInputs,
        options \in OptionInputs, setperm \in BOOLEAN :
       Finish(PutS(Sess, f, outdir, new_name, options, setperm),
              [NoCall EXCEPT !.op = "put", !.file = f, !.outdir = outdir,
                             !.new_name = new_name, !.options = options,
                             !.setperm = setperm], <<>>)

\* clear()
Clear ==
  /\ phase = "ready"
  /\ Effect([Sess EXCEPT !.actions = <<>>], [NoCall EXCEPT !.op = "clear"], <<>>)
  /\ runs' = 0

\* preview_steps()
PreviewSteps ==
  /\ phase = "ready"
  /\ Finish(Sess, [NoCall EXCEPT !.op = "preview_steps"], PreviewLines(actions))

\* run(): it has no precondition and may follow any number of planned steps;
\* only the number of runs between two clears is capped.
Run ==
  /\ phase = "ready"
  /\ runs < MaxRuns
  /\ LET r == AddStepS(Sess, S(<<ExitCommand(mode)>>), None)
     IN Effect(r, [NoCall EXCEPT !.op = "run"], FullCommand(r.actions))
  /\ runs' = runs + 1

\* A session as __init__ leaves it when username and password are passed in
\* and the config file exists.
Init ==
  /\ phase = "ready"
  /\ mode \in Modes
  /\ username = S(<<"alice">>)
  /\ password = S(<<"secret">>)
  /\ group \in SessionGroups
  /\ site = S(<<"hpc">>)
  /\ expect = DefaultExpect(mode, username)
  /\ entry = Entry(mode, username, site)
  /\ pw_steps = PwSteps(password)
  /\ actions = <<>>
  /\ file = <<>>
  /\ call = [NoCall EXCEPT !.op = "__init__", !.a_username = username,
                           !.a_password = password, !.a_group = group,
                           !.a_site = site]
  /\ output = <<>>
  /\ runs = 0

Next ==
  \/ AddStep
  \/ BasicStep
  \/ Pwd
  \/ Ls
  \/ Cwd
  \/ SetPermissions
  \/ Transfer
  \/ Get
  \/ Put
  \/ Clear
  \/ PreviewSteps
  \/ Run

Spec == Init /\ [][Next]_vars

\* ------------------------------------------------------------- credentials
\* The credential methods are functions of
\* c = [username, password, group, site, file, raised, prompted, wrote].

Creds ==
  [username |-> username, password |-> password, group |-> group, site |-> site,
   file |-> file, raised |-> "none", prompted |-> FALSE, wrote |-> FALSE]

CredKeys == <<"username", "password", "group", "site">>

\* setattr(self, cred, attr), the password going to the private attribute.
SetCred(c, cred, attr) ==
  CASE cred = "username" -> [c EXCEPT !.username = attr]
    [] cred = "password" -> [c EXCEPT !.password = attr]
    [] cred = "group" -> [c EXCEPT !.group = attr]
    [] OTHER -> [c EXCEPT !.site = attr]

\* _get_credential_if_present(line, cred)
GetCredentialIfPresent(c, line, cred) ==
  IF Contains(Lower(line), cred)
  THEN SetCred(c, cred, S(Strip(AfterLast(line, "="))))
  ELSE c

\* The inner loop of read_credentials over the four keys, from key k on.
RECURSIVE ReadLine(_, _, _)
ReadLine(c, line, k) ==
  IF k > Len(CredKeys) THEN c
  ELSE ReadLine(GetCredentialIfPresent(c, line, CredKeys[k]), line, k + 1)

\* read_credentials(config), lines being the lines of the file.
RECURSIVE ReadCredentials(_, _)
ReadCredentials(c, lines) ==
  IF lines = <<>> THEN c
  ELSE ReadCredentials(ReadLine(c, Strip(Head(lines)), 1), Tail(lines))

\* write_credentials()
WriteCredentials(c) ==
  [c EXCEPT !.file = << <<"username", "=">> \o Str(c.username),
                        <<"password", "=">> \o Str(c.password) >>,
            !.wrote = TRUE]

\* request_credentials(reset_user, reset_pass).  inp is what the user types:
\* inp.users are the usernames typed in turn, each but the last answered "n"
\* at the confirmation; inp.password, inp.group and inp.site are typed at
\* every prompt for them.  k is the next username to be typed.
RECURSIVE RequestCredentials(_, _, _, _, _)
RequestCredentials(c, reset_user, reset_pass, inp, k) ==
  LET c1 == IF ~Truthy(c.username) \/ reset_user
            THEN LET typed == [c EXCEPT !.username = inp.users[k], !.prompted = TRUE]
                 IN IF k < Len(inp.users)
                    THEN RequestCredentials(typed, TRUE, FALSE, inp, k + 1)
                    ELSE typed
            ELSE c
      c2 == IF ~Truthy(c1.password) \/ reset_pass
            THEN [c1 EXCEPT !.password = inp.password, !.prompted = TRUE]
            ELSE c1
      c3 == IF ~Truthy(c2.group)
            THEN [c2 EXCEPT !.group = inp.group, !.prompted = TRUE]
            ELSE c2
  IN IF ~Truthy(c3.site)
     THEN [c3 EXCEPT !.site = inp.site, !.prompted = TRUE]
     ELSE c3

\* get_credentials(save, overwrite, headless) at call depth `depth`.  The
\* config path is taken as already expanded.
RECURSIVE GetCredentials(_, _, _, _, _, _)
GetCredentials(c, save, overwrite, headless, inp, depth) ==
  IF depth > RecursionLimit THEN [c EXCEPT !.raised = "RecursionError"]
  ELSE LET c1 == IF ~Truthy(c.username) \/ ~Truthy(c.password)
                 THEN IF c.file # NoFile
                      THEN GetCredentials(ReadCredentials(c, c.file), TRUE, FALSE,
                                          FALSE, inp, depth + 1)
                      ELSE IF headless
                           THEN [c EXCEPT !.raised = "SystemExit"]
                           ELSE RequestCredentials(c, FALSE, FALSE, inp, 1)
                 ELSE c
       IN IF c1.raised # "none" THEN c1
          ELSE IF (save /\ c1.file = NoFile) \/ overwrite
               THEN WriteCredentials(c1)
               ELSE c1

\* reset_username()
ResetUsernameC(c, inp) == WriteCredentials(RequestCredentials(c, TRUE, FALSE, inp, 1))

\* reset_password()
ResetPasswordC(c, inp) == WriteCredentials(RequestCredentials(c, FALSE, TRUE, inp, 1))

\* ------------------------------------------------------- credential inputs

Absent == <<"<none>">>
UserValues == {<<"alice">>, <<"site", "admin">>}
PassValues == {<<"secret">>, <<"pa", "=", "ss">>}
GroupValues == {<<"1", "0", "0">>}
SiteValues == {<<"hpc">>}

OptLine(key, v) == IF v = Absent THEN <<>> ELSE << <<key, "=">> \o v >>

\* A config file with the given lines, in the order the program writes them.
ConfigLines(u, p, g, h) ==
  OptLine("username", u) \o OptLine("password", p) \o OptLine("group", g)
    \o OptLine("site", h)

ConfigFiles ==
  {NoFile}
    \cup {ConfigLines(u, p, g, h) :
            u \in UserValues \cup {Absent}, p \in PassValues \cup {Absent},
            g \in GroupValues \cup {Absent}, h \in SiteValues \cup {Absent}}
    \cup {<< <<"USERNAME", "=", "alice">>, <<" ", "PASSWORD", " ", "=", " ", "secret", " ">> >>}

PromptInputs ==
  [users : {<<S(<<"bob">>)>>, <<S(<<"bbo">>), S(<<"bob">>)>>},
   password : {S(<<"hunter2">>)},
   group : {S(<<>>), S(<<"2", "0", "0">>)},
   site : {S(<<"hpc2">>)}]

\* ------------------------------------------------------- credential calls

\* __init__(username, password, site, mode, group, config): the arguments are
\* already in the attributes (the first assignments of __init__); the rest
\* is get_credentials(save=True, overwrite=False) and the derived attributes.
Construct ==
  /\ phase = "new"
  /\ \E inp \in PromptInputs :
       LET r == GetCredentials(Creds, TRUE, FALSE, FALSE, inp, 1)
           ok == r.raised = "none"
       IN /\ phase' = IF ok THEN "ready" ELSE "failed"
          /\ username' = r.username
          /\ password' = r.password
          /\ group' = r.group
          /\ site' = r.site
          /\ file' = r.file
          /\ expect' = IF ok THEN DefaultExpect(mode, r.username) ELSE expect
          /\ entry' = IF ok THEN Entry(mode, r.username, r.site) ELSE entry
          /\ pw_steps' = IF ok THEN PwSteps(r.password) ELSE pw_steps
          /\ call' = [NoCall EXCEPT !.op = "__init__", !.raised = r.raised,
                                    !.a_username = username, !.a_password = password,
                                    !.a_group = group, !.a_site = site,
                                    !.prompted = r.prompted, !.wrote = r.wrote]
          /\ UNCHANGED <<mode, actions, output, runs>>

\* The state left by a credential call that ended in r; c names the call.
FinishCred(r, c, out) ==
  /\ username' = r.username
  /\ password' = r.password
  /\ group' = r.group
  /\ site' = r.site
  /\ file' = r.file
  /\ call' = [c EXCEPT !.raised = r.raised, !.prompted = r.prompted,
                       !.wrote = r.wrote]
  /\ output' = out
  /\ UNCHANGED <<phase, mode, expect, entry, pw_steps, actions, runs>>

ResetUsername ==
  /\ phase = "ready"
  /\ \E inp \in PromptInputs :
       FinishCred(ResetUsernameC(Creds, inp), [NoCall EXCEPT !.op = "reset_username"], <<>>)

ResetPassword ==
  /\ phase = "ready"
  /\ \E inp \in PromptInputs :
       FinishCred(ResetPasswordC(Creds, inp), [NoCall EXCEPT !.op = "reset_password"], <<>>)

\* get_credentials(save, overwrite, headless) called on a constructed session;
\* it returns (username, password).
GetCredentialsCall ==
  /\ phase = "ready"
  /\ \E inp \in PromptInputs, save \in BOOLEAN, overwrite \in BOOLEAN,
        headless \in BOOLEAN :
       LET r == GetCredentials(Creds, save, overwrite, headless, inp, 1)
       IN FinishCred(r, [NoCall EXCEPT !.op = "get_credentials", !.save = save,
                                       !.overwrite = overwrite,
                                       !.headless = headless],
                     IF r.raised = "none" THEN <<r.username, r.password>> ELSE <<>>)

\* read_credentials(self.config) called on a constructed session.
ReadCredentialsCall ==
  /\ phase = "ready"
  /\ FinishCred(IF file = NoFile
                THEN [Creds EXCEPT !.raised = "FileNotFoundError"]
                ELSE ReadCredentials(Creds, file),
                [NoCall EXCEPT !.op = "read_credentials"], <<>>)

\* request_credentials(reset_user, reset_pass) called on a constructed session.
RequestCredentialsCall ==
  /\ phase = "ready"
  /\ \E inp \in PromptInputs, reset_user \in BOOLEAN, reset_pass \in BOOLEAN :
       FinishCred(RequestCredentials(Creds, reset_user, reset_pass, inp, 1),
                  [NoCall EXCEPT !.op = "request_credentials",
                                 !.reset_user = reset_user,
                                 !.reset_pass = reset_pass], <<>>)

\* write_credentials() called on a constructed session.
WriteCredentialsCall ==
  /\ phase = "ready"
  /\ FinishCred(WriteCredentials(Creds), [NoCall EXCEPT !.op = "write_credentials"], <<>>)

\* Before __init__ has resolved the credentials: the arguments passed in and
\* the config file found.
InitCred ==
  /\ phase = "new"
  /\ mode \in Modes
  /\ username \in {None, S(<<"alice">>)}
  /\ password \in {None, S(<<"secret">>)}
  /\ group \in {None, S(<<"1", "0", "0">>)}
  /\ site \in {None, S(<<"hpc">>)}
  /\ file \in ConfigFiles
  /\ expect = None
  /\ entry = <<>>
  /\ pw_steps = <<>>
  /\ actions = <<>>
  /\ call = NoCall
  /\ output = <<>>
  /\ runs = 0

NextCred ==
  \/ Construct
  \/ ResetUsername
  \/ ResetPassword
  \/ GetCredentialsCall
  \/ ReadCredentialsCall
  \/ RequestCredentialsCall
  \/ WriteCredentialsCall
  \/ Run

SpecCred == InitCred /\ [][NextCred]_vars

\* ------------------------------------------------------------------ claims

\* The command a step sends: its send line without the leading `send "` and
\* the closing newline and quote.
CommandOf(step) == SubSeq(step.action, 4, Len(step.action) - 2)

\* pat occurs somewhere in seq.
Occurs(seq, pat) == \E i \in 1..Len(seq) : MatchAt(seq, pat, i)

\* A transfer step of the given kind for file f.
IsTransferStep(step, kind, f) ==
  /\ Head(CommandOf(step)) = kind
  /\ Occurs(CommandOf(step), Str(f))

\* The steps a call appended, when it removed none.
Appended(old, new) == SubSeq(new, Len(old) + 1, Len(new))
KeepsPrefix(old, new) == Len(new) >= Len(old) /\ SubSeq(new, 1, Len(old)) = old

\* The two lines a step contributes to the script.
StepLines(step) == step.expectation \o <<"\n">> \o step.action \o <<"\n">>

RECURSIVE AllStepLines(_)
AllStepLines(steps) ==
  IF steps = <<>> THEN <<>> ELSE StepLines(Head(steps)) \o AllStepLines(Tail(steps))

\* A step that waits for prompt and sends cmd.
PlainStep(prompt, cmd) ==
  [expectation |-> <<"expect", " ", "\"">> \o prompt \o <<"\"">>,
   action |-> <<"send", " ", "\"">> \o cmd \o <<"\n", "\"">>,
   mode |-> "sftp", quote |-> "\""]

BuilderOps == {"add_step", "basic_step", "pwd", "ls", "cwd", "set_permissions", "transfer",
               "get", "put", "clear", "preview_steps", "run"}

\* C1: in sftp mode a put/get/transfer call with a destination directory
\* keeps the prior steps and appends, consecutively and in this order,
\* (put only) `mkdir <outdir>`, the directory change to <outdir> (`cd` for
\* put, `lcd` for get, by the local flag for transfer), then the transfer
\* step for the file; without the permission flag these are all it appends.
C1_DirChangeBeforeTransfer ==
  [][(mode = "sftp" /\ call'.op \in {"put", "get", "transfer"} /\ Truthy(call'.outdir))
     => LET new == Appended(actions, actions')
            dirc == Str(call'.outdir)
        IN /\ KeepsPrefix(actions, actions')
           /\ call'.op = "put" =>
                /\ Len(new) >= 3
                /\ ~call'.setperm => Len(new) = 3
                /\ CommandOf(new[1]) = <<"mkdir", " ">> \o dirc
                /\ CommandOf(new[2]) = <<"cd", " ">> \o dirc
                /\ IsTransferStep(new[3], "put", call'.file)
           /\ call'.op = "get" =>
                /\ Len(new) = 2
                /\ CommandOf(new[1]) = <<"lcd", " ">> \o dirc
                /\ IsTransferStep(new[2], "get", call'.file)
           /\ call'.op = "transfer" =>
                /\ Len(new) = 2
                /\ CommandOf(new[1]) = <<IF call'.local THEN "lcd" ELSE "cd", " ">> \o dirc
                /\ IsTransferStep(new[2], Head(Str(call'.kind)), call'.file)
    ]_vars

\* C1 witness: a put with a destination directory after an earlier step.
C1_Witness ==
  /\ mode = "sftp" /\ call.op = "put" /\ Truthy(call.outdir) /\ call.raised = "none"
  /\ Len(actions) >= 4
  /\ CommandOf(actions[Len(actions) - 2]) = <<"mkdir", " ">> \o Str(call.outdir)

\* A group or mode argument the claim C2 calls numeric / non-numeric.
ArgNumeric(v) == v.t = "int" \/ (v.t = "str" /\ IsNumeric(v.s))
ArgNonNumeric(v) == v.t = "str" /\ v.s # <<>> /\ ~IsNumeric(v.s)

\* C2 (as claimed): in sftp mode set_permissions raises the type error for
\* every call whose group or mode argument is non-numeric and accepts every
\* call whose group and mode arguments are both numeric, whatever the
\* session state.
C2_RejectsExactlyNonNumeric ==
  (mode = "sftp" /\ call.op = "set_permissions") =>
    /\ (ArgNonNumeric(call.grp) \/ ArgNonNumeric(call.octal)) => call.raised = "TypeError"
    /\ (ArgNumeric(call.grp) /\ ArgNumeric(call.octal)) => call.raised = "none"

\* C3 (as claimed): construction always ends with get_credentials returning.
C3_ResolutionReturns == call.op = "__init__" => call.raised = "none"

\* The steps of a sequence that send the session's exit command.
ExitSteps(acts) == {i \in 1..Len(acts) : CommandOf(acts[i]) = <<ExitCommand(mode)>>}

\* C4 (as claimed): run keeps every step and appends exactly one exit step
\* for the mode, and the script is the opening, the login line, the password
\* step, the multi-factor step, every step in append order and the closing;
\* after a second run with no clear in between, the sequence ends with two
\* consecutive exit steps.
C4_SecondRunEndsWithTwoExits ==
  [][call'.op = "run"
     => LET exit == PlainStep(Str(expect), <<IF mode = "sftp" THEN "quit" ELSE "exit">>)
            n == Len(actions')
        IN /\ actions' = Append(actions, exit)
           /\ entry[1] = mode
           /\ pw_steps[1].expectation = <<"expect", " ", "\"", "Password:", "\"">>
           /\ pw_steps[2] = PlainStep(<<"Passcode or option (1-3):">>, <<"1">>)
           /\ output' = Open \o entry \o StepLines(pw_steps[1]) \o StepLines(pw_steps[2])
                          \o AllStepLines(actions') \o Close
           /\ runs >= 1 => (n >= 2 /\ actions'[n - 1] = exit /\ actions'[n] = exit)
    ]_vars

\* C4 (amended): run keeps every step and appends exactly one exit step for
\* the mode, and the script is the opening, the login line, the password
\* step, the multi-factor step, every step in append order and the closing;
\* after a second run with no clear in between, the sequence holds at least
\* two exit steps and ends with one, and it ends with two consecutive exit
\* steps exactly when the sequence already ended with an exit step before the
\* run (nothing was appended since the earlier run); steps appended between
\* the runs stay between the two exit steps.
C4_RunAppendsExitAndSerializes ==
  [][call'.op = "run"
     => LET exit == PlainStep(Str(expect), <<IF mode = "sftp" THEN "quit" ELSE "exit">>)
            n == Len(actions')
            m == Len(actions)
        IN /\ actions' = Append(actions, exit)
           /\ entry[1] = mode
           /\ pw_steps[1].expectation = <<"expect", " ", "\"", "Password:", "\"">>
           /\ pw_steps[2] = PlainStep(<<"Passcode or option (1-3):">>, <<"1">>)
           /\ output' = Open \o entry \o StepLines(pw_steps[1]) \o StepLines(pw_steps[2])
                          \o AllStepLines(actions') \o Close
           /\ runs >= 1 => (Cardinality(ExitSteps(actions')) >= 2 /\ actions'[n] = exit)
           /\ (n >= 2 /\ actions'[n - 1] = exit /\ actions'[n] = exit)
                <=> (m >= 1 /\ actions[m] = exit)
    ]_vars

\* C4 witness: a second run with no clear in between, in ssh mode, after two
\* steps were appended following the first run.
C4_Witness ==
  /\ call.op = "run" /\ mode = "ssh" /\ runs = 2 /\ Len(actions) = 4
  /\ CommandOf(actions[1]) = <<"exit">>
  /\ CommandOf(actions[2]) # <<"exit">>
  /\ CommandOf(actions[3]) # <<"exit">>
  /\ CommandOf(actions[4]) = <<"exit">>
  /\ output = Open \o entry \o AllStepLines(pw_steps) \o AllStepLines(actions) \o Close

\* C5 (as claimed): from a config file of the two lines username=u and
\* password=p and no username or password passed in, construction yields
\* username u and password p without a prompt, and the lines set no other
\* field.
C5_ConfigFileYieldsCredentials ==
  \A u \in UserValues, p \in PassValues :
    (call.op = "__init__" /\ call.a_username = None /\ call.a_password = None
       /\ file = ConfigLines(u, p, Absent, Absent))
    => /\ call.raised = "none"
       /\ username = S(u)
       /\ password = S(p)
       /\ ~call.prompted
       /\ group = call.a_group
       /\ site = call.a_site

\* A fresh session's credentials after read_credentials on the config file.
ReadBack ==
  ReadCredentials([username |-> None, password |-> None, group |-> None,
                   site |-> None, file |-> file, raised |-> "none",
                   prompted |-> FALSE, wrote |-> FALSE], file)

\* C6 (as claimed): when construction writes the config file, reading the
\* file back yields the username, password, group and site it resolved.
C6_WrittenFileReadsBack ==
  (call.op = "__init__" /\ call.wrote) =>
    /\ ReadBack.username = username
    /\ ReadBack.password = password
    /\ ReadBack.group = group
    /\ ReadBack.site = site

\* C7 (as claimed): preview_steps lists one entry per step, in order,
\* numbered from 0, each the command the step sends (and the newline sent
\* with it).
C7_PreviewListsCommands ==
  call.op = "preview_steps" =>
    /\ Len(output) = Len(actions)
    /\ \A i \in 1..Len(actions) :
         output[i] = <<i - 1, CommandOf(actions[i]) \o <<"\n">> >>

\* C8: outside sftp mode cwd(local=True), transfer, get and put raise.
C8_SftpOnlyOperationsRaise ==
  (mode # "sftp" /\ (call.op \in {"transfer", "get", "put"}
                     \/ (call.op = "cwd" /\ call.local)))
    => call.raised = "Exception"

\* C8 witness: a put with a destination directory refused in ssh mode.
C8_Witness ==
  /\ mode = "ssh" /\ call.op = "put" /\ Truthy(call.outdir)
  /\ call.raised = "Exception"

\* C9 (as claimed): a builder call that raises appends no step and leaves
\* the session's group as it was.
C9_FailedCallChangesNothing ==
  [][(call'.op \in BuilderOps /\ call'.raised # "none")
     => (actions' = actions /\ group' = group)]_vars

\* C10 (as claimed): the script run hands over logs in with the current
\* username and sends the current password.
C10_ScriptUsesCurrentCredentials ==
  call.op = "run" =>
    LET login == Entry(mode, username, site)
        pw == StepLines(PlainStep(<<"Password:">>, Str(password)))
    IN /\ SubSeq(output, Len(Open) + 1, Len(Open) + Len(login)) = login
       /\ SubSeq(output, Len(Open) + Len(login) + 1,
                 Len(Open) + Len(login) + Len(pw)) = pw

====
